---- MODULE Spec2Model ----
(***************************************************************************)
(* A model of petri_dish.distributors.DirectedDistributor: the balance     *)
(* table (get_current_assignment_balance), the directed candidate          *)
(* generator (generate_candidate_assignments), the independence scorer     *)
(* (calculate_min_p_value_distribution_independence) and the best-of-N     *)
(* search loop (assign_group).                                             *)
(*                                                                         *)
(* A subjects table is a sequence of rows in row order.  A row is a record *)
(* with one field per column; the treatment column holds <<>> for a null   *)
(* assignment and <<t>> for treatment t; the continuous column holds TRUE  *)
(* when its value is non-missing.  p-values are the integers 0..PScale,    *)
(* standing for k / PScale; NaN is the extra value PScale + 1.             *)
(***************************************************************************)
EXTENDS Integers, Sequences, FiniteSets, TLC

\* ------------------------------------------------------------------ bounds
MaxSubjects == 3        \* rows of a subjects table with one balancing feature
MaxSmallSubjects == 2   \* rows of a table with two balancing features or several trials
MaxAttempts == 2        \* largest random_attempts set with set_random_attempts
PScale == 2             \* p-values are k / PScale, k in 0..PScale

\* ------------------------------------------------------- input domains
MarketIds == {1, 2}
RegionIds == {1, 2}
TreatmentIdLists == {<<-1, 0>>, <<0, 1, 2>>}
PythonMajors == {2, 3}

PValues == 0..PScale
NaN == PScale + 1

Range(s) == {s[i] : i \in DOMAIN s}

Row(m, r, c, t) ==
    [market_id |-> m, region |-> r, num_app_accessed |-> c, treatment_group |-> t]

\* The subjects table of the test case: ids 1..10 in row order.
FixtureSubjects ==
    << Row(1, 1, TRUE, <<-1>>), Row(1, 1, TRUE, <<0>>), Row(2, 1, TRUE, <<>>),
       Row(3, 1, TRUE, <<>>),   Row(2, 1, TRUE, <<0>>), Row(1, 1, TRUE, <<>>),
       Row(3, 1, TRUE, <<0>>),  Row(2, 1, TRUE, <<>>),  Row(1, 1, TRUE, <<>>),
       Row(2, 1, TRUE, <<>>) >>

FixtureTreatmentIds == <<-1, 0>>

VARIABLES
    treatment_group_ids,            \* self.treatment_group_ids
    balancing_features,             \* self.balancing_features
    discrete_features,              \* self.discrete_features
    continuous_features,            \* self.continuous_features
    random_attempts,                \* self.random_attempts
    python,                         \* interpreter major version; 0 until a step depends on it
    subjects,                       \* the table passed by the caller
    pc,                             \* position of the call
    subjects_copy,                  \* assign_group local
    current_assignments_balance,    \* assign_group local
    max_min_p,                      \* assign_group local
    randomization,                  \* assign_group loop index
    selected_assignments,           \* assign_group local; <<>> while unbound
    candidate_subjects_assignments, \* generate_candidate_assignments local
    candidate_assignments_balance,  \* generate_candidate_assignments local
    pending,                        \* rows still to visit in the iterrows loop
    min_p_value,                    \* result of the last scorer call
    tests_run,                      \* tests the last scorer call ran
    p_seen,                         \* p-values those tests returned
    error,                          \* exception raised, "" if none
    trials,                         \* per finished trial: candidate and score
    counts                          \* result of a balance count of the candidate

config == <<treatment_group_ids, balancing_features, discrete_features,
            continuous_features, random_attempts, subjects>>
locals == <<subjects_copy, current_assignments_balance, max_min_p, randomization,
            selected_assignments, trials>>
trial == <<candidate_subjects_assignments, candidate_assignments_balance, pending>>
scorer == <<min_p_value, tests_run, p_seen>>
vars == <<config, locals, trial, scorer, counts, python, pc, error>>

\* ------------------------------------------------------------ balance table
IsNull(row) == row.treatment_group = <<>>

\* The values of a column over the assigned rows only.
UniqueOfAssigned(subjects_df, col) ==
    {subjects_df[i][col] : i \in {j \in DOMAIN subjects_df : ~IsNull(subjects_df[j])}}

\* subjects_df[col].unique()
Unique(subjects_df, col) == {subjects_df[i][col] : i \in DOMAIN subjects_df}

\* tuple(subject.loc[self.balancing_features])
BlockIndex(subject) == [i \in DOMAIN balancing_features |-> subject[balancing_features[i]]]

RECURSIVE Product(_, _)
\* all tuples over the value sets of the first n balancing features
Product(subjects_df, n) ==
    IF n = 0 THEN {<<>>}
    ELSE {Append(b, v) : b \in Product(subjects_df, n - 1),
                         v \in Unique(subjects_df, balancing_features[n])}

\* pd.MultiIndex.from_product(uniques + [treatment_group_ids])
JointIndex(subjects_df) ==
    {Append(b, t) : b \in Product(subjects_df, Len(balancing_features)),
                    t \in Range(treatment_group_ids)}

\* A count per treatment that ignores the block.
ValueCountAnyBlock(subjects_df, key) ==
    Cardinality({i \in DOMAIN subjects_df :
        /\ ~IsNull(subjects_df[i])
        /\ subjects_df[i].treatment_group[1] = key[Len(key)]})

\* groupby(balancing_features)[col].value_counts() at one key: nulls never count
ValueCount(subjects_df, key) ==
    Cardinality({i \in DOMAIN subjects_df :
        /\ ~IsNull(subjects_df[i])
        /\ Append(BlockIndex(subjects_df[i]), subjects_df[i].treatment_group[1]) = key})

DropNa(subjects_df) == SelectSeq(subjects_df, LAMBDA row : ~IsNull(row))

GetCurrentAssignmentBalance(subjects_df, count_nulls) ==
    LET kept == IF count_nulls THEN subjects_df ELSE DropNa(subjects_df)
    IN  IF kept = <<>>
        THEN [key \in JointIndex(subjects_df) |-> 0]
        ELSE [key \in JointIndex(subjects_df) |-> ValueCount(kept, key)]

\* ------------------------------------------------------ candidate generator
\* A loop that stops one row early.
NullRowsButLast(table) ==
    LET Rec[i \in 0..Len(table)] ==
            IF i = 0 THEN <<>>
            ELSE IF IsNull(table[i]) /\ i < Len(table) THEN Append(Rec[i - 1], i)
                 ELSE Rec[i - 1]
    IN  Rec[Len(table)]

\* A loop over every row, assigned or not.
EveryRow(table) == [i \in 1..Len(table) |-> i]

\* rows of candidate_subjects_assignments[treatment col.isnull()], in row order
NullRows(table) ==
    LET Rec[i \in 0..Len(table)] ==
            IF i = 0 THEN <<>>
            ELSE IF IsNull(table[i]) THEN Append(Rec[i - 1], i) ELSE Rec[i - 1]
    IN  Rec[Len(table)]

\* whether .loc[block_index] finds a row of the balance table
HasBlock(balance, block_index) ==
    \E key \in DOMAIN balance : SubSeq(key, 1, Len(key) - 1) = block_index

\* A uniformly random choice over all the treatments.
AllTreatments(balance, block_index) == Range(treatment_group_ids)

\* .loc[block_index].sample(frac=1).argmin(): the labels a shuffle can put first
\* among those holding the minimum count of the block (Series.argmin returns
\* the label of the first minimum, as the expected labels of
\* test_generate_candidate_assignments_returns_correct_assignments require)
MinimalTreatments(balance, block_index) ==
    {t \in Range(treatment_group_ids) :
        \A u \in Range(treatment_group_ids) :
            balance[Append(block_index, t)] <= balance[Append(block_index, u)]}

\* candidate_subjects_assignments.loc[ind, treatment col] = assignment
SetAssignment(table, ind, assignment) ==
    [table EXCEPT ![ind].treatment_group = <<assignment>>]

\* An increment that counts the subject twice.
IncrementByTwo(balance, block_index, assignment) ==
    [balance EXCEPT ![Append(block_index, assignment)] = @ + 2]

\* candidate_assignments_balance.loc[block_index + (assignment,)] += 1
Increment(balance, block_index, assignment) ==
    [balance EXCEPT ![Append(block_index, assignment)] = @ + 1]

\* ------------------------------------------------------------------- scorer
TestId(kind, col, t1, t2) == [kind |-> kind, col |-> col, t1 |-> t1, t2 |-> t2]

\* for cat in self.balancing_features + self.discrete_features
ChiSquaredTests ==
    LET cats == balancing_features \o discrete_features
    IN  [k \in DOMAIN cats |-> TestId("chi_squared", cats[k], 0, 0)]

\* the (t_ind1, t_ind2, col) triples of the nested loops, in loop order
TTestSlots ==
    LET n == Len(treatment_group_ids)
        c == Len(continuous_features)
        all == [k \in 1..(n * n * c) |->
                   TestId("ttest", continuous_features[((k - 1) % c) + 1],
                          ((k - 1) \div (n * c)) + 1, (((k - 1) \div c) % n) + 1)]
    IN  SelectSeq(all, LAMBDA s : s.t1 < s.t2)

\* treatment_slice[col].notnull().sum()
NotNullCount(data, t_ind, col) ==
    Cardinality({r \in DOMAIN data :
        /\ data[r].treatment_group = <<treatment_group_ids[t_ind]>>
        /\ data[r][col]})

\* treatment1_slice[col].notnull().sum() > 1
FirstGroupHasTwo(data, slot) == NotNullCount(data, slot.t1, slot.col) > 1

\* what the second operand tests in words: the second group has two values
SecondGroupHasTwo(data, slot) == NotNullCount(data, slot.t2, slot.col) > 1

\* The slots whose second operand, (bound method) > 1, gets evaluated.
TTestsReached(data) == SelectSeq(TTestSlots, LAMBDA s : FirstGroupHasTwo(data, s))

\* (bound method) > 1 raises TypeError on Python 3 and is True on Python 2
RaisesTypeError(data, major) == major = 3 /\ TTestsReached(data) # <<>>

\* The interpreters a call can turn out to run on: the one already observed,
\* either one when no step has depended on it yet.
Interpreters(data) ==
    IF TTestsReached(data) = <<>> \/ python # 0 THEN {python} ELSE PythonMajors

TestsRun(data) == ChiSquaredTests \o TTestsReached(data)

\* min_p = p: the last p-value wins.
LastP(min_p, p) == IF p # NaN THEN p ELSE min_p

\* A minimum that NaN poisons, as numpy.minimum does.
NaNPropagatingMin(min_p, p) == IF p = NaN \/ p < min_p THEN p ELSE min_p

\* min(min_p, p): the builtin keeps min_p unless p < min_p, and NaN < x is false
PyMin(min_p, p) == IF p # NaN /\ p < min_p THEN p ELSE min_p

RECURSIVE FoldMin(_, _)
FoldMin(min_p, ps) ==
    IF ps = <<>> THEN min_p ELSE FoldMin(PyMin(min_p, Head(ps)), Tail(ps))

\* The results the library can return for one test: a chi-squared p-value is
\* a number; a t-test of a group with fewer than two values is NaN, and one of
\* two constant groups is NaN too.
PValuesOf(data, test) ==
    IF test.kind = "chi_squared" THEN PValues
    ELSE IF SecondGroupHasTwo(data, test) THEN PValues \cup {NaN}
    ELSE {NaN}

\* the p-values of the tests, in the order they run
PValueOracles(tests, allowed) ==
    {ps \in [DOMAIN tests -> PValues \cup {NaN}] :
        \A k \in DOMAIN tests : ps[k] \in allowed[k]}

\* min_p = 1, then one min(min_p, p) per test
MinP(ps) == FoldMin(PScale, ps)

\* --------------------------------------------------------------------- Init
Assignments == {<<>>} \cup {<<t>> : t \in Range(treatment_group_ids)}

TablesOf(rows, max) == UNION {[1..n -> rows] : n \in 1..max}

\* One balancing feature, any table of up to MaxSubjects rows, one trial.
InitBlocks ==
    /\ treatment_group_ids \in TreatmentIdLists
    /\ balancing_features = <<"market_id">>
    /\ discrete_features = <<>>
    /\ continuous_features = <<>>
    /\ random_attempts = 1
    /\ subjects \in TablesOf({Row(m, 1, TRUE, t) : m \in MarketIds, t \in Assignments},
                             MaxSubjects)

\* Two balancing features: the blocks are the cross product of their values.
InitCross ==
    /\ treatment_group_ids = <<-1, 0>>
    /\ balancing_features = <<"market_id", "region">>
    /\ discrete_features = <<>>
    /\ continuous_features = <<>>
    /\ random_attempts = 1
    /\ subjects \in TablesOf({Row(m, r, TRUE, t) : m \in MarketIds, r \in RegionIds,
                                                  t \in Assignments},
                             MaxSmallSubjects)

\* The test case's distributor and table, one trial.
InitFixture ==
    /\ treatment_group_ids = FixtureTreatmentIds
    /\ balancing_features = <<"market_id">>
    /\ discrete_features = <<"has_server_skill">>
    /\ continuous_features = <<"num_app_accessed">>
    /\ random_attempts = 1
    /\ subjects = FixtureSubjects

\* The test case's distributor on tables of up to MaxSmallSubjects rows of one
\* block, under every random_attempts up to MaxAttempts.
InitSearch ==
    /\ treatment_group_ids = FixtureTreatmentIds
    /\ balancing_features = <<"market_id">>
    /\ discrete_features = <<"has_server_skill">>
    /\ continuous_features = <<"num_app_accessed">>
    /\ random_attempts \in 0..MaxAttempts
    /\ subjects \in TablesOf({Row(1, 1, TRUE, t) : t \in Assignments}, MaxSmallSubjects)

\* Tables for the scorer alone: missing continuous values, no balancing feature.
InitScorer ==
    /\ treatment_group_ids \in TreatmentIdLists
    /\ balancing_features = <<>>
    /\ discrete_features \in {<<>>, <<"has_server_skill">>}
    /\ continuous_features = <<"num_app_accessed">>
    /\ random_attempts = 1
    /\ subjects \in TablesOf({Row(1, 1, c, t) : c \in BOOLEAN, t \in Assignments},
                             MaxSubjects)

\* A distributor with no treatment group: no subject can be assigned yet.
InitNoTreatments ==
    /\ treatment_group_ids = <<>>
    /\ balancing_features = <<"market_id">>
    /\ discrete_features = <<>>
    /\ continuous_features = <<>>
    /\ random_attempts = 1
    /\ subjects \in TablesOf({Row(m, 1, TRUE, <<>>) : m \in MarketIds}, MaxSmallSubjects)

Init ==
    /\ \/ InitBlocks \/ InitCross \/ InitFixture \/ InitSearch \/ InitScorer
       \/ InitNoTreatments
    /\ python = 0
    /\ pc = "idle"
    /\ subjects_copy = <<>>
    /\ current_assignments_balance = <<>>
    /\ max_min_p = 0
    /\ randomization = 0
    /\ selected_assignments = <<>>
    /\ candidate_subjects_assignments = <<>>
    /\ candidate_assignments_balance = <<>>
    /\ pending = <<>>
    /\ min_p_value = 0
    /\ tests_run = <<>>
    /\ p_seen = {}
    /\ error = ""
    /\ trials = <<>>
    /\ counts = <<>>

\* ------------------------------------------------------------------ actions
\* assign_group, lines 70-75
AssignGroup ==
    /\ pc = "idle"
    /\ balancing_features # <<>>
    /\ subjects_copy' = subjects
    /\ current_assignments_balance' = GetCurrentAssignmentBalance(subjects, FALSE)
    /\ max_min_p' = 0
    /\ randomization' = 0
    /\ pc' = "loop"
    /\ UNCHANGED <<config, counts, selected_assignments, trials, trial, scorer, python, error>>

\* No copy: the candidate is another name of the table passed in.
AfterWriteToAlias(input, written) == written

\* subjects.copy(), assignments_balance.copy(): the table passed in, after a
\* write to its copy
AfterWriteToCopy(input, written) == input

\* A pass that goes on from the tables the pass before it left.
StartTrialFromLast ==
    /\ pc = "loop"
    /\ randomization < random_attempts
    /\ IF randomization = 0
       THEN /\ candidate_subjects_assignments' = subjects_copy
            /\ candidate_assignments_balance' = current_assignments_balance
       ELSE UNCHANGED <<candidate_subjects_assignments, candidate_assignments_balance>>
    /\ pending' = NullRows(candidate_subjects_assignments')
    /\ pc' = "generate"
    /\ UNCHANGED <<config, counts, locals, scorer, python, error>>

\* A loop that runs one pass too many: range(self.random_attempts + 1).
StartTrialOnceMore ==
    /\ pc = "loop"
    /\ randomization <= random_attempts
    /\ candidate_subjects_assignments' = subjects_copy
    /\ candidate_assignments_balance' = current_assignments_balance
    /\ pending' = NullRows(subjects_copy)
    /\ pc' = "generate"
    /\ UNCHANGED <<config, counts, locals, scorer, python, error>>

\* one more pass of the for loop: generate_candidate_assignments copies its inputs
StartTrial ==
    /\ pc = "loop"
    /\ randomization < random_attempts
    /\ candidate_subjects_assignments' = subjects_copy
    /\ candidate_assignments_balance' = current_assignments_balance
    /\ pending' = NullRows(subjects_copy)
    /\ pc' = "generate"
    /\ UNCHANGED <<config, counts, locals, scorer, python, error>>

\* one pass of the iterrows loop
AssignSubject ==
    /\ pc = "generate"
    /\ pending # <<>>
    /\ LET ind == Head(pending)
           block_index == BlockIndex(candidate_subjects_assignments[ind])
       IN  IF HasBlock(candidate_assignments_balance, block_index)
           THEN /\ \E assignment \in
                        MinimalTreatments(candidate_assignments_balance, block_index) :
                     /\ candidate_subjects_assignments' =
                            SetAssignment(candidate_subjects_assignments, ind, assignment)
                     /\ candidate_assignments_balance' =
                            Increment(candidate_assignments_balance, block_index, assignment)
                /\ pending' = Tail(pending)
                /\ UNCHANGED <<pc, error>>
           ELSE \* .loc[block_index] on a table without the block
                /\ pc' = "error"
                /\ error' = "KeyError"
                /\ UNCHANGED trial
    /\ subjects_copy' = AfterWriteToCopy(subjects_copy, candidate_subjects_assignments')
    /\ current_assignments_balance' =
           AfterWriteToCopy(current_assignments_balance, candidate_assignments_balance')
    /\ UNCHANGED <<config, counts, scorer, python>>
    /\ UNCHANGED <<max_min_p, randomization, selected_assignments, trials>>

\* return (candidate_subjects_assignments, candidate_assignments_balance)
ReturnCandidate ==
    /\ pc = "generate"
    /\ pending = <<>>
    /\ pc' = "score"
    /\ UNCHANGED <<config, counts, locals, trial, scorer, python, error>>

\* get_current_assignment_balance(candidate, count_nulls=True) on the tables
\* generate_candidate_assignments returned
CountCandidate ==
    /\ pc = "score"
    /\ counts' = GetCurrentAssignmentBalance(candidate_subjects_assignments, TRUE)
    /\ pc' = "counted"
    /\ UNCHANGED <<config, locals, trial, scorer, python, error>>

\* calculate_min_p_value_distribution_independence(data): raises, or returns
\* min_p_value'
CalculateMinP(data) ==
    \E major \in Interpreters(data) :
        /\ python' = major
        /\ IF RaisesTypeError(data, major)
           THEN /\ error' = "TypeError"
                /\ UNCHANGED scorer
           ELSE \E tests \in {TestsRun(data)} :
                \E allowed \in {[k \in DOMAIN tests |-> PValuesOf(data, tests[k])]} :
                \E ps \in PValueOracles(tests, allowed) :
                  /\ min_p_value' = MinP(ps)
                  /\ tests_run' = tests
                  /\ p_seen' = Range(ps)
                  /\ error' = error

\* if min_p_value >= max_min_p: a later tie replaces the retained candidate.
BetterOrEqual(min_p, best) == min_p >= best

\* if min_p_value > max_min_p
Better(min_p, best) == min_p > best

\* lines 86-91: score the candidate, keep it if strictly better
ScoreTrial ==
    /\ pc = "score"
    /\ CalculateMinP(candidate_subjects_assignments)
    /\ IF error' # ""
       THEN /\ pc' = "error"
            /\ UNCHANGED locals
       ELSE /\ IF Better(min_p_value', max_min_p)
               THEN /\ selected_assignments' = candidate_subjects_assignments
                    /\ max_min_p' = min_p_value'
               ELSE UNCHANGED <<selected_assignments, max_min_p>>
            /\ trials' = Append(trials, [candidate |-> candidate_subjects_assignments,
                                         score |-> min_p_value'])
            /\ randomization' = randomization + 1
            /\ pc' = "loop"
            /\ UNCHANGED <<subjects_copy, current_assignments_balance>>
    /\ UNCHANGED <<config, counts, trial>>

\* line 93: return selected_assignments, max_min_p
Return ==
    /\ pc = "loop"
    /\ randomization >= random_attempts
    /\ IF selected_assignments = <<>>
       THEN pc' = "error" /\ error' = "UnboundLocalError"
       ELSE pc' = "done" /\ error' = error
    /\ UNCHANGED <<config, counts, locals, trial, scorer, python>>

\* calculate_min_p_value_distribution_independence called on a table directly
ScoreTable ==
    /\ pc = "idle"
    /\ CalculateMinP(subjects)
    /\ pc' = IF error' # "" THEN "error" ELSE "scored"
    /\ UNCHANGED <<config, counts, locals, trial>>

Next ==
    \/ AssignGroup
    \/ StartTrial
    \/ AssignSubject
    \/ ReturnCandidate
    \/ CountCandidate
    \/ ScoreTrial
    \/ Return
    \/ ScoreTable

Spec == Init /\ [][Next]_vars

\* ------------------------------------------------------------------- claims
TreatmentIds == Range(treatment_group_ids)

\* the rows of a table that lie in a block
RowsOfBlock(table, block) == {i \in DOMAIN table : BlockIndex(table[i]) = block}

\* the rows of a table that lie in a block and hold a treatment
Holding(table, block, t) ==
    {i \in RowsOfBlock(table, block) : table[i].treatment_group = <<t>>}

\* the blocks of a balance table
BlocksOf(balance) == {SubSeq(key, 1, Len(key) - 1) : key \in DOMAIN balance}

RECURSIVE SumOver(_, _, _)
\* the sum of a block's counts over a sequence of treatment ids
SumOver(balance, block, ids) ==
    IF ids = <<>> THEN 0
    ELSE balance[Append(block, Head(ids))] + SumOver(balance, block, Tail(ids))

FullyAssigned(table) ==
    /\ Len(table) = Len(subjects)
    /\ \A i \in DOMAIN table :
          /\ ~IsNull(table[i])
          /\ table[i].treatment_group[1] \in TreatmentIds

\* C1: every subject of the table assign_group returns holds a non-null
\* assignment that is one of the configured treatment-group ids.
C1_ReturnedTableFullyAssigned ==
    pc = "done" => FullyAssigned(selected_assignments)

C1_Witness ==
    /\ pc = "done"
    /\ \E i \in DOMAIN subjects : IsNull(subjects[i]) /\ ~IsNull(selected_assignments[i])
    /\ \E i \in DOMAIN subjects : ~IsNull(subjects[i])

\* a table that differs from the input only in the treatment of rows that
\* were null in the input
KeepsAssigned(table) ==
    /\ Len(table) = Len(subjects)
    /\ \A i \in DOMAIN subjects :
          IF IsNull(subjects[i])
          THEN [table[i] EXCEPT !.treatment_group = <<>>] = subjects[i]
          ELSE table[i] = subjects[i]

\* C2: a subject assigned in the input keeps exactly that value in the
\* candidate, at every step of a trial, and in the table assign_group returns;
\* only rows whose assignment was null are written.
C2_AssignedSubjectsKept ==
    /\ pc \in {"generate", "score"} => KeepsAssigned(candidate_subjects_assignments)
    /\ selected_assignments # <<>> => KeepsAssigned(selected_assignments)

C2_Witness ==
    /\ pc = "done"
    /\ \E i \in DOMAIN subjects : ~IsNull(subjects[i])
    /\ \E i \in DOMAIN subjects :
          IsNull(subjects[i]) /\ selected_assignments[i] # subjects[i]

\* the row a step of the iterrows loop wrote, 0 if it is no such step
Written ==
    IF pc = "generate" /\ pending # <<>> THEN Head(pending) ELSE 0

\* C3: each unassigned subject, taken in row order, receives a treatment
\* whose number of holders in the subject's block (assigned in the input or
\* earlier in the same trial) is minimal over the configured ids at that
\* moment; an id with strictly more holders than another is never chosen.
\* (With no configured id no subject receives a treatment: see C13.)
C3_MinimalCountChosen ==
    [][(Written # 0 /\ treatment_group_ids # <<>>) =>
          LET ind == Written
              before == candidate_subjects_assignments
              block == BlockIndex(before[ind])
              chosen == candidate_subjects_assignments'[ind].treatment_group
          IN  /\ \A i \in DOMAIN before : IsNull(before[i]) => ind <= i
              /\ IsNull(before[ind])
              /\ chosen # <<>>
              /\ chosen[1] \in TreatmentIds
              /\ \A u \in TreatmentIds :
                    Cardinality(Holding(before, block, chosen[1]))
                        <= Cardinality(Holding(before, block, u))
              /\ candidate_assignments_balance'[Append(block, chosen[1])]
                    = Cardinality(Holding(before, block, chosen[1])) + 1
       ]_vars

\* a later row was assigned in a block whose counts were unequal
C3_Witness ==
    /\ pc = "generate"
    /\ \E i, j \in DOMAIN subjects :
          /\ i < j
          /\ IsNull(subjects[i]) /\ IsNull(subjects[j])
          /\ BlockIndex(subjects[i]) = BlockIndex(subjects[j])
          /\ ~IsNull(candidate_subjects_assignments[j])
          /\ candidate_subjects_assignments[i] # candidate_subjects_assignments[j]

\* no two treatments of a block differ by more than one in a balance table
BalancedWithinOne(balance) ==
    \A block \in BlocksOf(balance) : \A t, u \in TreatmentIds :
        balance[Append(block, t)] - balance[Append(block, u)] <= 1

\* C4: on the test case's table, after one trial started from the initial
\* balance table, whatever the tie-breaks, no block of the returned balance
\* table holds two counts that differ by more than one.
C4_FixtureBalancedWithinOne ==
    (subjects = FixtureSubjects /\ pc = "score")
        => BalancedWithinOne(candidate_assignments_balance)

C4_Witness ==
    /\ subjects = FixtureSubjects
    /\ pc = "score"
    /\ randomization = 0
    /\ candidate_assignments_balance # current_assignments_balance
    /\ \A i \in DOMAIN subjects : ~IsNull(candidate_subjects_assignments[i])

\* C5: during and after a trial the counts of every block sum to the number
\* of its subjects assigned before the trial plus the number assigned during
\* it; every new assignment adds one to exactly one cell.
C5_BlockSumsCountEverySubject ==
    pc \in {"generate", "score"} =>
        \A block \in BlocksOf(candidate_assignments_balance) :
            SumOver(candidate_assignments_balance, block, treatment_group_ids)
              = Cardinality({i \in RowsOfBlock(subjects, block) : ~IsNull(subjects[i])})
                + Cardinality({i \in RowsOfBlock(subjects, block) :
                      IsNull(subjects[i]) /\ ~IsNull(candidate_subjects_assignments[i])})

C5_Witness ==
    /\ pc = "score"
    /\ \E block \in BlocksOf(candidate_assignments_balance) :
          /\ \E i \in RowsOfBlock(subjects, block) : ~IsNull(subjects[i])
          /\ \E i \in RowsOfBlock(subjects, block) : IsNull(subjects[i])
          /\ SumOver(candidate_assignments_balance, block, treatment_group_ids) >= 3

Max(S) == CHOOSE x \in S : \A y \in S : y <= x
Min(S) == CHOOSE x \in S : \A y \in S : x <= y

\* C6: assign_group returns the candidate of the first trial whose score is
\* the maximum over all N trials, with that maximum as the score; a later
\* trial that only equals the best so far does not replace it.  The retained
\* candidate is the first best of the trials finished so far at every point
\* of the loop, and the call returns after exactly N trials.
C6_FirstBestTrialReturned ==
    /\ pc = "done" => Len(trials) = random_attempts /\ selected_assignments # <<>>
    /\ selected_assignments # <<>> =>
          \E k \in DOMAIN trials :
              /\ trials[k].score = Max({trials[j].score : j \in DOMAIN trials})
              /\ \A j \in 1..(k - 1) : trials[j].score < trials[k].score
              /\ selected_assignments = trials[k].candidate
              /\ max_min_p = trials[k].score

\* two trials tie for the best score with different candidates
C6_Witness ==
    /\ pc = "done"
    /\ \E j, k \in DOMAIN trials :
          /\ j < k
          /\ trials[j].score = max_min_p
          /\ trials[k].score = max_min_p
          /\ trials[j].candidate # trials[k].candidate
          /\ selected_assignments = trials[j].candidate

\* the call built the balance table of the test case's table
FixtureBalanceBuilt ==
    subjects = FixtureSubjects /\ pc \notin {"idle", "scored"} /\ subjects_copy # <<>>

\* the counts the claim lists, keyed by (market_id, treatment_group)
ClaimedFixtureBalance ==
    (<<1, -1>> :> 1) @@ (<<1, 0>> :> 1) @@ (<<2, -1>> :> 0) @@
    (<<2, 0>> :> 1) @@ (<<3, -1>> :> 0) @@ (<<3, 0>> :> 0)

\* the counts with subject 7 (market 3, treatment 0) counted
FixtureBalance ==
    (<<1, -1>> :> 1) @@ (<<1, 0>> :> 1) @@ (<<2, -1>> :> 0) @@
    (<<2, 0>> :> 1) @@ (<<3, -1>> :> 0) @@ (<<3, 0>> :> 1)

\* C7, as stated: on the test case's table get_current_assignment_balance
\* reports exactly {(1,-1):1, (1,0):1, (2,-1):0, (2,0):1, (3,-1):0, (3,0):0}.
C7_ClaimedFixtureBalance ==
    FixtureBalanceBuilt => current_assignments_balance = ClaimedFixtureBalance

\* C7, amended: on the test case's table get_current_assignment_balance
\* reports exactly {(1,-1):1, (1,0):1, (2,-1):0, (2,0):1, (3,-1):0, (3,0):1}:
\* the four pre-assigned subjects are each counted once.
C7_FixtureInitialBalance ==
    FixtureBalanceBuilt => current_assignments_balance = FixtureBalance

C7_Witness ==
    /\ FixtureBalanceBuilt
    /\ pc = "loop"
    /\ randomization = 0
    /\ current_assignments_balance = FixtureBalance

\* the keys a balance table must hold: one value per balancing feature, each
\* observed on some subject, assigned or not, and one configured treatment id
ExpectedKeys ==
    {[i \in 1..(Len(balancing_features) + 1) |->
          IF i <= Len(balancing_features)
          THEN subjects[rows[i]][balancing_features[i]]
          ELSE treatment_group_ids[rows[i]]] :
       rows \in {r \in [1..(Len(balancing_features) + 1) ->
                          DOMAIN subjects \cup DOMAIN treatment_group_ids] :
                    /\ \A i \in 1..Len(balancing_features) : r[i] \in DOMAIN subjects
                    /\ r[Len(balancing_features) + 1] \in DOMAIN treatment_group_ids}}

CompleteTable(balance, table) ==
    /\ DOMAIN balance = ExpectedKeys
    /\ \A key \in DOMAIN balance :
          /\ balance[key] \in Nat
          /\ (\A i \in DOMAIN table :
                 IsNull(table[i])
                 \/ Append(BlockIndex(table[i]), table[i].treatment_group[1]) # key)
             => balance[key] = 0

\* C8: the balance table get_current_assignment_balance returns, and the one
\* a trial carries, holds exactly one count >= 0 for every combination of
\* observed balancing-feature values and configured treatment id; a
\* combination no assigned subject falls in is present with count 0.
C8_EveryCombinationPresent ==
    /\ subjects_copy # <<>> => CompleteTable(current_assignments_balance, subjects)
    /\ pc \in {"generate", "score"}
          => CompleteTable(candidate_assignments_balance, candidate_subjects_assignments)

\* no subject is assigned, and a combination of observed values has no subject
C8_Witness ==
    /\ pc = "generate"
    /\ \A i \in DOMAIN subjects : IsNull(subjects[i])
    /\ \E key \in DOMAIN current_assignments_balance :
          \A i \in DOMAIN subjects :
              BlockIndex(subjects[i]) # SubSeq(key, 1, Len(key) - 1)
    /\ \E key \in DOMAIN candidate_assignments_balance :
          candidate_assignments_balance[key] > 0

\* the call was made on the caller's table, not inside assign_group
DirectCall == subjects_copy = <<>> /\ pc \in {"scored", "error"}

Eligible(data, slot) == FirstGroupHasTwo(data, slot) /\ SecondGroupHasTwo(data, slot)

\* C9: a t-test of a pair and feature where either group has fewer than two
\* non-missing values is skipped: the call raises no error for it and the
\* test is not among those run.
C9_TooFewValuesSkipped ==
    DirectCall =>
        /\ pc = "scored" =>
              \A k \in DOMAIN tests_run :
                  tests_run[k].kind = "ttest" => Eligible(subjects, tests_run[k])
        /\ error = "TypeError" => Eligible(subjects, Head(TTestsReached(subjects)))

C11_ReturnedScoreInUnitInterval ==
    pc = "done" =>
        /\ max_min_p \in PValues
        /\ \A k \in DOMAIN trials : trials[k].score \in PValues

\* two trials, one of them scoring 0, one whose t-test returned NaN
C11_Witness ==
    /\ pc = "done"
    /\ Len(trials) >= 2
    /\ \E k \in DOMAIN trials : trials[k].score = 0
    /\ NaN \in p_seen
    /\ max_min_p < PScale

\* C12: with random_attempts below 1, assign_group runs no trial, returns no
\* result and fails: line 93 reads selected_assignments, which no pass of
\* the loop bound, and the UnboundLocalError reaches the caller.
C12_NoAttemptsFails ==
    /\ []((random_attempts < 1 /\ subjects_copy # <<>>) =>
              /\ pc \in {"loop", "error"}
              /\ trials = <<>>
              /\ candidate_subjects_assignments = <<>>
              /\ selected_assignments = <<>>
              /\ pc = "error" => error = "UnboundLocalError")
    /\ [][(random_attempts < 1 /\ pc = "loop") => pc' = "error"]_vars

C12_Witness ==
    /\ random_attempts < 1
    /\ subjects_copy # <<>>
    /\ pc = "error"
    /\ error = "UnboundLocalError"

\* C13: with an empty treatment-group id list assign_group fails before any
\* trial runs: no candidate generation step and no scoring step is executed
\* before the failure.
C13_NoTreatmentsFailsBeforeTrials ==
    (treatment_group_ids = <<>> /\ subjects_copy # <<>>) =>
        /\ pc \in {"loop", "error"}
        /\ candidate_subjects_assignments = <<>>
        /\ trials = <<>>

\* C14: counting the candidate table that generate_candidate_assignments
\* returned, with count_nulls = True, gives for every (block, treatment) pair
\* the count of the balance table returned with it, which is the number of
\* subjects of the block that hold the treatment in the candidate.
C14_RecountEqualsReturnedBalance ==
    pc = "counted" =>
        /\ DOMAIN counts = DOMAIN candidate_assignments_balance
        /\ \A key \in DOMAIN counts :
              /\ counts[key] = candidate_assignments_balance[key]
              /\ counts[key] =
                     Cardinality(Holding(candidate_subjects_assignments,
                                         SubSeq(key, 1, Len(key) - 1), key[Len(key)]))

C14_Witness ==
    /\ pc = "counted"
    /\ candidate_subjects_assignments # subjects
    /\ \E i \in DOMAIN subjects : ~IsNull(subjects[i])
    /\ \E key \in DOMAIN counts : counts[key] >= 2
    /\ \E key \in DOMAIN counts : counts[key] = 0

\* C15: generate_candidate_assignments leaves its two inputs as they were:
\* no step of it changes the subjects table or the balance table passed in,
\* every row that was null in the table passed in is still null there, and
\* the counts passed in are still the counts of that table.
C15_GeneratorInputsUnchanged ==
    /\ [](pc \in {"generate", "score"} =>
             /\ \A i \in DOMAIN subjects : IsNull(subjects[i]) => IsNull(subjects_copy[i])
             /\ current_assignments_balance = GetCurrentAssignmentBalance(subjects_copy, FALSE))
    /\ [][pc = "generate" =>
             /\ subjects_copy' = subjects_copy
             /\ current_assignments_balance' = current_assignments_balance]_vars

C15_Witness ==
    /\ pc = "score"
    /\ \E i \in DOMAIN subjects_copy :
          IsNull(subjects_copy[i]) /\ ~IsNull(candidate_subjects_assignments[i])
    /\ \E i \in DOMAIN subjects_copy : ~IsNull(subjects_copy[i])
    /\ candidate_assignments_balance # current_assignments_balance

\* the balance table of the table the caller passed, counted from its rows
InitialBalance ==
    [key \in ExpectedKeys |->
        Cardinality(Holding(subjects, SubSeq(key, 1, Len(key) - 1), key[Len(key)]))]

\* C16: every trial of assign_group starts from the table the caller passed
\* and from the balance table built from it before the loop, whatever the
\* trials before it assigned or counted.
C16_EveryTrialStartsFromInitialTables ==
    /\ [](pc \in {"loop", "generate", "score", "done"} =>
             /\ subjects_copy = subjects
             /\ current_assignments_balance = InitialBalance)
    /\ [][(pc = "loop" /\ pc' = "generate") =>
             /\ candidate_subjects_assignments' = subjects
             /\ candidate_assignments_balance' = InitialBalance
             /\ pending' = NullRows(subjects)]_vars

C16_Witness ==
    /\ pc = "generate"
    /\ randomization = 1
    /\ pending = NullRows(subjects)
    /\ pending # <<>>
    /\ trials[1].candidate # subjects
    /\ candidate_subjects_assignments = subjects
    /\ candidate_assignments_balance = InitialBalance

\* C17: with a valid configuration and N >= 1 assign_group runs its N trials
\* and then reaches Done with a retained candidate, whatever the scores of the
\* trials, 0 included: the loop never ends without a retained candidate.
C17_LoopEndsWithRetainedCandidate ==
    (treatment_group_ids # <<>> /\ random_attempts >= 1) =>
        /\ (pc = "loop" /\ randomization >= random_attempts) => selected_assignments # <<>>
        /\ error # "UnboundLocalError"

====
